---- MODULE Spec2Model ----
(***************************************************************************)
(* A model of fito: the operation-keyed Mongo stores                       *)
(* (fito/data_store/mongo.py), the Spec type system (fito/specs/base.py)   *)
(* and the hyper-parameter grid of Model (fito/model/model.py).            *)
(***************************************************************************)
EXTENDS Integers, Sequences, FiniteSets, TLC

(***************************************************************************)
(* Bounds of the model.                                                    *)
(***************************************************************************)
NumOps == 2
MaxId == 2
MaxOid == 4
MaxDocs == 2
MaxBatch == 2
MaxSeriesLen == 2

(***************************************************************************)
(* Operations are the keys of the store.  An operation has a canonical key *)
(* (Spec.key), a dict form (Spec.to_dict) and a 32 bit hash of the key.    *)
(* HashBuckets makes mmh3 many-to-one: operations 1 and 2 collide.         *)
(***************************************************************************)
HashBuckets == 2

Ops == 1..NumOps

OpKey(o) == <<"/", "Operation", o>>

mmh3(key) == ((key[3] + 1) \div 2) % HashBuckets

_get_op_hash(o) == mmh3(OpKey(o))

Absent == <<"absent">>

to_dict(o) == [type |-> "Operation", name |-> o, involved_series |-> Absent]

involved_series(o) == <<>>

dict2operation(d) == d.name

_dict2operation(d) == dict2operation([d EXCEPT !.involved_series = Absent])

(***************************************************************************)
(* Python values that are stored.  A series has an index and values; the   *)
(* array series.values and the index series.index are pickled on their own.*)
(***************************************************************************)
IndexInputs == {<<1>>}
SeriesInputs == {[index |-> <<1>>, values |-> <<5>>], [index |-> <<2>>, values |-> <<6>>]}

NoObj == [index |-> <<>>, values |-> <<>>]
PyArray(a) == [index |-> <<>>, values |-> a]
PyIndex(i) == [index |-> i, values |-> <<>>]

(***************************************************************************)
(* A cell is what a document field holds: nothing ("none"), a Python value *)
(* ("obj"), the str zlib.compress(pickle.dumps(x)) ("z"), that str wrapped *)
(* in bson Binary ("bin") or the id of a gridfs file ("file").             *)
(***************************************************************************)
NoneCell == [tag |-> "none", obj |-> NoObj, fid |-> 0]
ObjCell(x) == [tag |-> "obj", obj |-> x, fid |-> 0]
FileCell(f) == [tag |-> "file", obj |-> NoObj, fid |-> f]

compress_dumps(x) == [tag |-> "z", obj |-> x, fid |-> 0]

Binary(c) == [c EXCEPT !.tag = "bin"]

CanDecompress(c) == c.tag \in {"z", "bin"}

loads_decompress(c) == c.obj

(***************************************************************************)
(* GridFS: fs.files holds the file ids, fs.chunks their contents.          *)
(* A store is the record of its four collections.                          *)
(***************************************************************************)
EmptyStore == [coll |-> <<>>, conf |-> <<>>, files |-> {}, chunks |-> <<>>]

CanPut(c) == c.tag \in {"obj", "z", "bin"}

gridfs_put(st, oid, c) ==
    [st |-> [st EXCEPT !.files = @ \cup {oid + 1},
                       !.chunks = [f \in DOMAIN @ \cup {oid + 1} |->
                                      IF f = oid + 1 THEN c ELSE @[f]]],
     oid |-> oid + 1,
     ref |-> FileCell(oid + 1)]

CanGet(st, c) == c.tag = "file" /\ c.fid \in st.files /\ c.fid \in DOMAIN st.chunks

gridfs_get(st, c) == st.chunks[c.fid]

gridfs_delete(st, c) ==
    IF c.tag = "file"
    THEN [st EXCEPT !.files = @ \ {c.fid},
                    !.chunks = [f \in DOMAIN @ \ {c.fid} |-> @[f]]]
    ELSE st

(***************************************************************************)
(* Documents.  _id is unset until the insert, then an allocated integer    *)
(* or a generated ObjectId.  The field rnd is read by choice() only and is *)
(* left out.                                                               *)
(***************************************************************************)
NoId == [t |-> "unset", n |-> 0]
IntId(n) == [t |-> "int", n |-> n]
ObjectId(n) == [t |-> "oid", n |-> n]

ConfDoc(k, n, c) == [key |-> k, num |-> n, cell |-> c]

Handle(kind, gridfs, incr, autosave, index) ==
    [kind |-> kind, use_gridfs |-> gridfs, add_incremental_id |-> incr,
     autosave_index |-> autosave, _index |-> index]

NoIndex == [some |-> FALSE, v |-> <<>>]
SomeIndex(i) == [some |-> TRUE, v |-> i]

(***************************************************************************)
(* MongoHashMap._build_doc and MongoDataStore._build_doc.                  *)
(***************************************************************************)
MongoHashMap_build_doc(h, o, s) ==
    [_id |-> NoId,
     operation |-> to_dict(o),
     values |-> ObjCell(s),
     index |-> NoneCell,
     dtype |-> "",
     op_hash |-> _get_op_hash(o)]

MongoDataStore_build_doc(h, o, s) ==
    LET zvalues == compress_dumps(PyArray(s.values))
        zindex == compress_dumps(PyIndex(s.index))
    IN [_id |-> NoId,
        operation |-> [to_dict(o) EXCEPT !.involved_series = involved_series(o)],
        values |-> IF h.use_gridfs THEN zvalues ELSE Binary(zvalues),
        index |-> IF h._index.some THEN NoneCell
                  ELSE IF h.use_gridfs THEN zindex ELSE Binary(zindex),
        dtype |-> "i8",
        op_hash |-> _get_op_hash(o)]

_build_doc(h, o, s) ==
    IF h.kind = "MongoHashMap" THEN MongoHashMap_build_doc(h, o, s)
    ELSE MongoDataStore_build_doc(h, o, s)

(***************************************************************************)
(* MongoHashMap._persist_values: every document's values go to gridfs, in  *)
(* order.  put() of something that is no str raises; the document was      *)
(* popped of its values by then.                                           *)
(***************************************************************************)
RECURSIVE PersistFrom(_, _, _, _)
PersistFrom(st, oid, docs, i) ==
    IF i > Len(docs) THEN [ok |-> TRUE, st |-> st, oid |-> oid, docs |-> docs]
    ELSE IF ~CanPut(docs[i].values)
    THEN [ok |-> FALSE, st |-> st, oid |-> oid,
          docs |-> [docs EXCEPT ![i].values = NoneCell]]
    ELSE LET p == gridfs_put(st, oid, docs[i].values)
         IN PersistFrom(p.st, p.oid, [docs EXCEPT ![i].values = p.ref], i + 1)

_persist_values(st, oid, docs) == PersistFrom(st, oid, docs, 1)

(***************************************************************************)
(* The collection's insert of a list of documents: in order, stopping at   *)
(* the first _id that is already there (DuplicateKeyError).                *)
(***************************************************************************)
HasId(coll, id) == \E j \in 1..Len(coll) : coll[j]._id = id

RECURSIVE InsertFrom(_, _, _)
InsertFrom(coll, docs, i) ==
    IF i > Len(docs) THEN [coll |-> coll, dup |-> FALSE]
    ELSE IF HasId(coll, docs[i]._id) THEN [coll |-> coll, dup |-> TRUE]
    ELSE InsertFrom(Append(coll, docs[i]), docs, i + 1)

coll_insert(coll, docs) == InsertFrom(coll, docs, 1)

(* A Python 2 str in a document is encoded as a BSON string and has to be  *)
(* valid UTF-8; compressed bytes that are not make the insert raise.       *)
HasRawStr(docs) ==
    \E i \in 1..Len(docs) : docs[i].values.tag = "z" \/ docs[i].index.tag = "z"

(***************************************************************************)
(* The counter document of the conf collection.                            *)
(***************************************************************************)
HasKey(conf, k) == \E j \in 1..Len(conf) : conf[j].key = k

FirstKey(conf, k) == CHOOSE j \in 1..Len(conf) :
    conf[j].key = k /\ \A l \in 1..(j - 1) : conf[l].key # k

find_one(conf, k) == conf[FirstKey(conf, k)]

find_and_modify_inc(conf, n) == [conf EXCEPT ![FirstKey(conf, "id_seq")].num = @ + n]

(* find_and_modify(..., new=True): the counter is incremented and the      *)
(* incremented value is returned, in one step of the database.             *)
find_and_modify_old(conf, n) ==
    [conf |-> find_and_modify_inc(conf, n), value |-> find_one(conf, "id_seq").num]

find_and_modify(conf, n) ==
    [conf |-> find_and_modify_inc(conf, n),
     value |-> find_one(find_and_modify_inc(conf, n), "id_seq").num]

_init_incremental_id(st) ==
    IF HasKey(st.conf, "id_seq") THEN st
    ELSE [st EXCEPT !.conf = Append(@, ConfDoc("id_seq", 0, NoneCell))]

AssignIds(docs, max_id) ==
    [i \in 1..Len(docs) |-> [docs[i] EXCEPT !._id = IntId(max_id - Len(docs) + (i - 1))]]

AssignObjectIds(docs, oid) ==
    [i \in 1..Len(docs) |->
        IF docs[i]._id = NoId THEN [docs[i] EXCEPT !._id = ObjectId(oid + i)] ELSE docs[i]]

(***************************************************************************)
(* MongoHashMap._insert.  utf8ok says whether compressed bytes left as a   *)
(* plain str in a document happen to be valid UTF-8.                       *)
(***************************************************************************)
Outcome(status, st, oid, docs) == [status |-> status, st |-> st, oid |-> oid, docs |-> docs]

RECURSIVE _insert(_, _, _, _, _)
_insert(h, st, oid, docs, utf8ok) ==
    IF ~h.add_incremental_id
    THEN LET p == IF h.use_gridfs THEN _persist_values(st, oid, docs)
                  ELSE [ok |-> TRUE, st |-> st, oid |-> oid, docs |-> docs]
             withIds == AssignObjectIds(p.docs, p.oid)
         IN IF ~p.ok THEN Outcome("TypeError", p.st, p.oid, p.docs)
            ELSE IF HasRawStr(p.docs) /\ ~utf8ok
            THEN Outcome("InvalidStringData", p.st, p.oid, p.docs)
            ELSE Outcome("ok",
                         [p.st EXCEPT !.coll = coll_insert(@, withIds).coll],
                         p.oid + Len(docs), withIds)
    ELSE IF ~HasKey(st.conf, "id_seq")
    THEN Outcome("AttributeError", st, oid, docs)
    ELSE LET conf1 == find_and_modify(st.conf, Len(docs)).conf
             max_id == find_and_modify(st.conf, Len(docs)).value
             st1 == [st EXCEPT !.conf = conf1]
             docs1 == AssignIds(docs, max_id)
             p == IF h.use_gridfs THEN _persist_values(st1, oid, docs1)
                  ELSE [ok |-> TRUE, st |-> st1, oid |-> oid, docs |-> docs1]
             ins == coll_insert(p.st.coll, p.docs)
             st2 == [p.st EXCEPT !.coll = ins.coll]
         IN IF ~p.ok THEN Outcome("TypeError", p.st, p.oid, p.docs)
            ELSE IF HasRawStr(p.docs) /\ ~utf8ok
            THEN Outcome("InvalidStringData", p.st, p.oid, p.docs)
            ELSE IF ins.dup THEN _insert(h, st2, p.oid, p.docs, utf8ok)
            ELSE Outcome("ok", st2, p.oid, p.docs)

(***************************************************************************)
(* MongoHashMap._get_doc: the documents of the hash bucket are scanned in  *)
(* order and the first whose operation equals the asked one (Spec.__eq__   *)
(* compares the keys) is returned with the asked fields.                   *)
(***************************************************************************)
AllFields == {"values", "index", "dtype", "operation", "op_hash"}

Project(doc, fields) ==
    [_id |-> doc._id,
     operation |-> doc.operation,
     values |-> IF "values" \in fields THEN doc.values ELSE NoneCell,
     index |-> IF "index" \in fields THEN doc.index ELSE NoneCell,
     dtype |-> IF "dtype" \in fields THEN doc.dtype ELSE "",
     op_hash |-> IF "op_hash" \in fields THEN doc.op_hash ELSE 0]

SameOperation(doc, o) == OpKey(_dict2operation(doc.operation)) = OpKey(o)

Matches_hash_only(doc, o) == doc.op_hash = _get_op_hash(o)

Matches(doc, o) == doc.op_hash = _get_op_hash(o) /\ SameOperation(doc, o)

Found(coll, o) == \E j \in 1..Len(coll) : Matches(coll[j], o)

FirstMatch(coll, o) == CHOOSE j \in 1..Len(coll) :
    Matches(coll[j], o) /\ \A l \in 1..(j - 1) : ~Matches(coll[l], o)

_get_doc(st, o, fields) ==
    IF Found(st.coll, o)
    THEN [found |-> TRUE, doc |-> Project(st.coll[FirstMatch(st.coll, o)], fields \cup {"operation"})]
    ELSE [found |-> FALSE, doc |-> Project(MongoHashMap_build_doc(0, o, NoObj), {})]

(***************************************************************************)
(* _parse_doc of both stores; the result is the value or the error raised. *)
(***************************************************************************)
Result(status, s) == [status |-> status, value |-> s]

Series(values, index) ==
    IF Len(values.values) = Len(index) THEN Result("ok", [index |-> index, values |-> values.values])
    ELSE Result("ValueError", NoObj)

MongoHashMap_parse_doc(h, st, doc) ==
    IF h.use_gridfs
    THEN IF CanGet(st, doc.values) THEN Result("ok", gridfs_get(st, doc.values).obj)
         ELSE Result("NoFile", NoObj)
    ELSE Result("ok", doc.values.obj)

MongoDataStore_parse_doc(h, st, doc) ==
    LET noValues == h.use_gridfs /\ ~CanGet(st, doc.values)
        zvalues == IF h.use_gridfs THEN gridfs_get(st, doc.values) ELSE doc.values
        noIndex == h.use_gridfs /\ ~CanGet(st, doc.index)
        zindex == IF h.use_gridfs THEN gridfs_get(st, doc.index) ELSE doc.index
    IN IF noValues THEN Result("NoFile", NoObj)
       ELSE IF ~CanDecompress(zvalues) THEN Result("error", NoObj)
       ELSE IF h._index.some THEN Series(loads_decompress(zvalues), h._index.v)
       ELSE IF doc.index.tag = "none" THEN Result("KeyError", NoObj)
       ELSE IF noIndex THEN Result("NoFile", NoObj)
       ELSE IF ~CanDecompress(zindex) THEN Result("error", NoObj)
       ELSE Series(loads_decompress(zvalues), loads_decompress(zindex).index)

_parse_doc(h, st, doc) ==
    IF h.kind = "MongoHashMap" THEN MongoHashMap_parse_doc(h, st, doc)
    ELSE MongoDataStore_parse_doc(h, st, doc)

_get(h, st, o) ==
    LET g == _get_doc(st, o, AllFields)
    IN IF g.found THEN _parse_doc(h, st, g.doc) ELSE Result("NotFound", NoObj)


(***************************************************************************)
(* save, delete, clean of MongoHashMap and MongoDataStore.                 *)
(***************************************************************************)
MongoHashMap_save(h, st, oid, o, s, utf8ok) ==
    _insert(h, st, oid, <<MongoHashMap_build_doc(h, o, s)>>, utf8ok)

MongoDataStore_save(h, st, oid, o, s, utf8ok) ==
    LET doc == MongoDataStore_build_doc(h, o, s)
        p == gridfs_put(st, oid, doc.index)
    IN IF h.use_gridfs /\ ~h._index.some
       THEN _insert(h, p.st, p.oid, <<[doc EXCEPT !.index = p.ref]>>, utf8ok)
       ELSE _insert(h, st, oid, <<doc>>, utf8ok)

save(h, st, oid, o, s, utf8ok) ==
    IF h.kind = "MongoHashMap" THEN MongoHashMap_save(h, st, oid, o, s, utf8ok)
    ELSE MongoDataStore_save(h, st, oid, o, s, utf8ok)

RemoveId(coll, id) == SelectSeq(coll, LAMBDA d : d._id # id)

delete(h, st, o) ==
    LET g == _get_doc(st, o, IF h.use_gridfs THEN {"values"} ELSE {})
        st1 == IF h.use_gridfs THEN gridfs_delete(st, g.doc.values) ELSE st
    IN IF ~g.found THEN [status |-> "NotFound", st |-> st, doc |-> g.doc]
       ELSE [status |-> "ok",
             st |-> [st1 EXCEPT !.coll = RemoveId(@, g.doc._id)],
             doc |-> g.doc]

clean_keep_counter(h, st) == [EmptyStore EXCEPT !.conf = st.conf]

clean(h, st) ==
    IF h.add_incremental_id THEN _init_incremental_id(EmptyStore) ELSE EmptyStore

(***************************************************************************)
(* The shared index of MongoDataStore.                                     *)
(***************************************************************************)
Upsert(conf, doc) ==
    IF HasKey(conf, doc.key) THEN [conf EXCEPT ![FirstKey(conf, doc.key)] = doc]
    ELSE Append(conf, doc)

save_index(h, st, oid) ==
    LET zvalues == Binary(compress_dumps(PyIndex(h._index.v)))
        p == gridfs_put(st, oid, zvalues)
    IN IF h.use_gridfs
       THEN [st |-> [p.st EXCEPT !.conf = Upsert(@, ConfDoc("index", 0, p.ref))], oid |-> p.oid]
       ELSE [st |-> [st EXCEPT !.conf = Upsert(@, ConfDoc("index", 0, zvalues))], oid |-> oid]

_set_index(h, st, oid, index) ==
    LET h1 == [h EXCEPT !._index = SomeIndex(index)]
        r == save_index(h1, st, oid)
    IN IF h.autosave_index THEN [h |-> h1, st |-> r.st, oid |-> r.oid]
       ELSE [h |-> h1, st |-> st, oid |-> oid]

_load_index(h, st) ==
    LET value == find_one(st.conf, "index").cell
        z == IF h.use_gridfs THEN gridfs_get(st, value) ELSE value
    IN IF ~HasKey(st.conf, "index") THEN [status |-> "ok", index |-> NoIndex]
       ELSE IF h.use_gridfs /\ ~CanGet(st, value) THEN [status |-> "NoFile", index |-> h._index]
       ELSE IF ~CanDecompress(z) THEN [status |-> "error", index |-> h._index]
       ELSE [status |-> "ok", index |-> SomeIndex(loads_decompress(z).index)]

(***************************************************************************)
(* MongoDataStore.extend, up to the renames: the scratch store res is      *)
(* opened and every key of df is merged into it.                           *)
(***************************************************************************)
RECURSIVE SortedKeys(_)
SortedKeys(S) ==
    IF S = {} THEN <<>>
    ELSE LET m == CHOOSE x \in S : \A y \in S : x <= y
         IN <<m>> \o SortedKeys(S \ {m})

(* new_v.append(old_v).sort_index(): the labels in ascending order.        *)
RECURSIVE InsertSorted(_, _, _)
InsertSorted(s, label, value) ==
    IF Len(s.index) = 0 \/ label < Head(s.index)
    THEN [index |-> <<label>> \o s.index, values |-> <<value>> \o s.values]
    ELSE LET r == InsertSorted([index |-> Tail(s.index), values |-> Tail(s.values)], label, value)
         IN [index |-> <<Head(s.index)>> \o r.index, values |-> <<Head(s.values)>> \o r.values]

RECURSIVE sort_index(_)
sort_index(s) ==
    IF Len(s.index) = 0 THEN s
    ELSE LET n == Len(s.index)
             front == sort_index([index |-> SubSeq(s.index, 1, n - 1),
                                  values |-> SubSeq(s.values, 1, n - 1)])
         IN InsertSorted(front, s.index[n], s.values[n])

series_append(a, b) == [index |-> a.index \o b.index, values |-> a.values \o b.values]

ScratchHandle(h) == Handle("MongoDataStore", h.use_gridfs, TRUE, TRUE, NoIndex)

RECURSIVE ExtendLoop(_, _, _, _, _, _, _, _)
ExtendLoop(h, st, rh, rs, oid, keys, df, utf8ok) ==
    IF keys = <<>> THEN [status |-> "ok", rs |-> rs, oid |-> oid]
    ELSE LET key == Head(keys)
             old_v == _get(h, st, key)
             v == sort_index(series_append(df[key], old_v.value))
             rh1 == [rh EXCEPT !._index = SomeIndex(v.index)]
             ix == save_index(rh1, rs, oid)
             sv == MongoDataStore_save(rh1, ix.st, ix.oid, key, v, utf8ok)
         IN IF old_v.status # "ok" THEN [status |-> old_v.status, rs |-> rs, oid |-> oid]
            ELSE IF sv.status # "ok" THEN [status |-> sv.status, rs |-> sv.st, oid |-> sv.oid]
            ELSE ExtendLoop(h, st, rh1, sv.st, sv.oid, Tail(keys), df, utf8ok)

extend_build_unchecked(h, st, oid, df, utf8ok) ==
    IF Cardinality(DOMAIN df) # Len(st.coll)
    THEN [status |-> "AssertionError", rs |-> EmptyStore, oid |-> oid]
    ELSE ExtendLoop(h, st, ScratchHandle(h), _init_incremental_id(EmptyStore), oid,
                    SortedKeys(DOMAIN df), df, utf8ok)

extend_build(h, st, oid, df, utf8ok) ==
    IF Cardinality(DOMAIN df) # Len(st.coll)
    THEN [status |-> "AssertionError", rs |-> EmptyStore, oid |-> oid]
    ELSE IF ~h._index.some
    THEN [status |-> "NotImplementedError", rs |-> EmptyStore, oid |-> oid]
    ELSE ExtendLoop(h, st, ScratchHandle(h), _init_incremental_id(EmptyStore), oid,
                    SortedKeys(DOMAIN df), df, utf8ok)


(***************************************************************************)
(* The state of one process working on one store.                          *)
(*   kind, use_gridfs, add_incremental_id, autosave_index, _index: the     *)
(*     handle (a MongoHashMap or MongoDataStore object);                   *)
(*   coll, conf, fs_files, fs_chunks: the collections of the store;        *)
(*   scratch: the collections of the scratch store of extend;              *)
(*   batch: Batch._docs;   pc: where extend stands;                        *)
(*   last: the last call and what it returned or raised.                   *)
(***************************************************************************)
VARIABLES kind, use_gridfs, add_incremental_id, autosave_index, _index,
          coll, conf, fs_files, fs_chunks, scratch, batch, pc, last,
          writers, allocs, call, grid

vars == <<kind, use_gridfs, add_incremental_id, autosave_index, _index,
          coll, conf, fs_files, fs_chunks, scratch, batch, pc, last,
          writers, allocs, call, grid>>

others == <<writers, allocs, call, grid>>

config == <<kind, use_gridfs, add_incremental_id, autosave_index>>

self == Handle(kind, use_gridfs, add_incremental_id, autosave_index, _index)

DB == [coll |-> coll, conf |-> conf, files |-> fs_files, chunks |-> fs_chunks]

SetDB(st) ==
    /\ coll' = st.coll
    /\ conf' = st.conf
    /\ fs_files' = st.files
    /\ fs_chunks' = st.chunks

IdSeq(c) == IF HasKey(c, "id_seq") THEN find_one(c, "id_seq").num ELSE 0

(***************************************************************************)
(* ObjectIds (gridfs file ids, generated _ids) are new when they are made: *)
(* the model takes the ids above every id that the state mentions.         *)
(***************************************************************************)
CellOids(c) == IF c.tag = "file" THEN {c.fid} ELSE {}

DocOids(d) == CellOids(d.values) \cup CellOids(d.index)
              \cup (IF d._id.t = "oid" THEN {d._id.n} ELSE {})

StoreOids(st) ==
    UNION {DocOids(st.coll[j]) : j \in 1..Len(st.coll)}
    \cup UNION {CellOids(st.conf[j].cell) : j \in 1..Len(st.conf)}
    \cup st.files \cup DOMAIN st.chunks

SetMax(S) == IF S = {} THEN 0 ELSE CHOOSE x \in S : \A y \in S : y <= x

last_oid == SetMax(StoreOids(DB) \cup StoreOids(scratch)
              \cup UNION {DocOids(batch[j]) : j \in 1..Len(batch)})

InBounds(st, n) == n <= MaxOid /\ IdSeq(st.conf) <= MaxId

Last(op, o, val, status) == [op |-> op, o |-> o, val |-> val, status |-> status]

(***************************************************************************)
(* The Model classes that the program has registered: which subclasses of  *)
(* Kernel exist and with which grids, which nested fields Top declares.    *)
(***************************************************************************)
Registry(at, impls, rbf, poly, top, fields, required) ==
    [at |-> at, impls |-> impls, rbf |-> rbf, poly |-> poly, top |-> top,
     fields |-> fields, required |-> required,
     result |-> [status |-> "none", v |-> <<>>]]

OthersIdle ==
    /\ writers = <<>>
    /\ allocs = <<>>
    /\ call = <<>>
    /\ grid = Registry("idle", {}, <<>>, <<>>, <<>>, {}, FALSE)

Init ==
    /\ OthersIdle
    /\ kind \in {"MongoHashMap", "MongoDataStore"}
    /\ use_gridfs \in BOOLEAN
    /\ add_incremental_id \in BOOLEAN
    /\ autosave_index \in (IF kind = "MongoDataStore" THEN BOOLEAN ELSE {TRUE})
    /\ _index = NoIndex
    /\ coll = <<>>
    /\ conf = (IF add_incremental_id THEN _init_incremental_id(EmptyStore).conf ELSE <<>>)
    /\ fs_files = {}
    /\ fs_chunks = <<>>
    /\ scratch = EmptyStore
    /\ batch = <<>>
    /\ pc = "idle"
    /\ last = Last("init", 0, NoObj, "ok")

Save(o, s, utf8ok) ==
    LET r == save(self, DB, last_oid, o, s, utf8ok)
    IN /\ pc = "idle"
       /\ InBounds(r.st, r.oid)
       /\ Len(coll) + Len(batch) < MaxDocs
       /\ SetDB(r.st)
       /\ last' = Last("save", o, s, r.status)
       /\ UNCHANGED <<others, config, _index, scratch, batch, pc>>

Get(o) ==
    LET r == _get(self, DB, o)
    IN /\ pc = "idle"
       /\ last' = Last("get", o, r.value, r.status)
       /\ UNCHANGED <<others, config, _index, coll, conf, fs_files, fs_chunks, scratch, batch, pc>>

Delete(o) ==
    LET r == delete(self, DB, o)
    IN /\ pc = "idle"
       /\ SetDB(r.st)
       /\ last' = Last("delete", o, NoObj, r.status)
       /\ UNCHANGED <<others, config, _index, scratch, batch, pc>>

Clean ==
    /\ pc = "idle"
    /\ SetDB(clean(self, DB))
    /\ last' = Last("clean", 0, NoObj, "ok")
    /\ UNCHANGED <<others, config, _index, scratch, batch, pc>>

BatchAppend(o, s) ==
    /\ pc = "idle"
    /\ Len(batch) < MaxBatch
    /\ Len(coll) + Len(batch) < MaxDocs
    /\ batch' = Append(batch, _build_doc(self, o, s))
    /\ last' = Last("append", o, s, "ok")
    /\ UNCHANGED <<others, config, _index, coll, conf, fs_files, fs_chunks, scratch, pc>>

_save_batch(h, st, n, docs, utf8ok) ==
    IF Len(docs) > 0 THEN _insert(h, st, n, docs, utf8ok)
    ELSE Outcome("ok", st, n, docs)

BatchCommit(utf8ok) ==
    LET r == _save_batch(self, DB, last_oid, batch, utf8ok)
    IN /\ pc = "idle"
       /\ InBounds(r.st, r.oid)
       /\ SetDB(r.st)
       /\ batch' = (IF r.status = "ok" THEN <<>> ELSE r.docs)
       /\ last' = Last("commit", 0, NoObj, r.status)
       /\ UNCHANGED <<others, config, _index, scratch, pc>>

SetIndex(i) ==
    LET r == _set_index(self, DB, last_oid, i)
    IN /\ pc = "idle"
       /\ kind = "MongoDataStore"
       /\ InBounds(r.st, r.oid)
       /\ SetDB(r.st)
       /\ _index' = r.h._index
       /\ last' = Last("set_index", 0, PyIndex(i), "ok")
       /\ UNCHANGED <<others, config, scratch, batch, pc>>


(***************************************************************************)
(* extend(df): the checks and the build of the scratch store, then one     *)
(* step per collection rename, then the reload of the shared index.        *)
(***************************************************************************)
DataFrames == {[k \in S |-> s] : S \in SUBSET Ops, s \in SeriesInputs}

ExtendBegin(df) ==
    LET r == extend_build(self, DB, last_oid, df, TRUE)
        created == r.status \notin {"AssertionError", "NotImplementedError"}
    IN /\ pc = "idle"
       /\ kind = "MongoDataStore"
       /\ _index.some => Len(_index.v) < MaxSeriesLen
       /\ r.oid <= MaxOid
       /\ scratch' = (IF created THEN r.rs ELSE scratch)
       /\ pc' = (IF r.status = "ok" THEN "rename_coll" ELSE "idle")
       /\ last' = Last("extend", Cardinality(DOMAIN df), NoObj, r.status)
       /\ UNCHANGED <<others, config, _index, coll, conf, fs_files, fs_chunks, batch>>

ExtendRenameColl_with_conf ==
    /\ pc = "rename_coll"
    /\ IF scratch.coll = <<>>
       THEN /\ pc' = "idle"
            /\ last' = Last("extend", 0, NoObj, "OperationFailure")
            /\ UNCHANGED <<coll, conf, scratch>>
       ELSE /\ coll' = scratch.coll
            /\ conf' = scratch.conf
            /\ scratch' = [scratch EXCEPT !.coll = <<>>]
            /\ pc' = "rename_conf"
            /\ last' = Last("rename_coll", 0, NoObj, "ok")
    /\ UNCHANGED <<others, config, _index, fs_files, fs_chunks, batch>>

ExtendRenameColl ==
    /\ pc = "rename_coll"
    /\ IF scratch.coll = <<>>
       THEN /\ pc' = "idle"
            /\ last' = Last("extend", 0, NoObj, "OperationFailure")
            /\ UNCHANGED <<coll, scratch>>
       ELSE /\ coll' = scratch.coll
            /\ scratch' = [scratch EXCEPT !.coll = <<>>]
            /\ pc' = "rename_conf"
            /\ last' = Last("rename_coll", 0, NoObj, "ok")
    /\ UNCHANGED <<others, config, _index, conf, fs_files, fs_chunks, batch>>

ExtendRenameConf ==
    /\ pc = "rename_conf"
    /\ conf' = scratch.conf
    /\ scratch' = [scratch EXCEPT !.conf = <<>>]
    /\ pc' = (IF use_gridfs THEN "rename_files" ELSE "load_index")
    /\ last' = Last("rename_conf", 0, NoObj, "ok")
    /\ UNCHANGED <<others, config, _index, coll, fs_files, fs_chunks, batch>>

ExtendRenameFiles ==
    /\ pc = "rename_files"
    /\ fs_files' = scratch.files
    /\ scratch' = [scratch EXCEPT !.files = {}]
    /\ pc' = "rename_chunks"
    /\ last' = Last("rename_files", 0, NoObj, "ok")
    /\ UNCHANGED <<others, config, _index, coll, conf, fs_chunks, batch>>

ExtendRenameChunks ==
    /\ pc = "rename_chunks"
    /\ fs_chunks' = scratch.chunks
    /\ scratch' = [scratch EXCEPT !.chunks = <<>>]
    /\ pc' = "load_index"
    /\ last' = Last("rename_chunks", 0, NoObj, "ok")
    /\ UNCHANGED <<others, config, _index, coll, conf, fs_files, batch>>

ExtendLoadIndex ==
    LET r == _load_index(self, DB)
    IN /\ pc = "load_index"
       /\ _index' = r.index
       /\ pc' = "idle"
       /\ last' = Last("extend", 0, NoObj, r.status)
       /\ UNCHANGED <<others, config, coll, conf, fs_files, fs_chunks, scratch, batch>>

(***************************************************************************)
(* Spec: one process using the key-value interface of a store (save, get,  *)
(* delete, clean, batches) and assigning the shared index.                 *)
(***************************************************************************)
Next ==
    \/ \E o \in Ops, s \in SeriesInputs, utf8ok \in BOOLEAN : Save(o, s, utf8ok)
    \/ \E o \in Ops : Get(o)
    \/ \E o \in Ops : Delete(o)
    \/ Clean
    \/ \E o \in Ops, s \in SeriesInputs : BatchAppend(o, s)
    \/ \E utf8ok \in BOOLEAN : BatchCommit(utf8ok)
    \/ \E i \in IndexInputs : SetIndex(i)

Spec == Init /\ [][Next]_vars

(***************************************************************************)
(* SpecExtend: one process saving series, assigning the shared index,      *)
(* cleaning and extending a store.                                         *)
(***************************************************************************)
NextExtend ==
    \/ \E o \in Ops, s \in SeriesInputs, utf8ok \in BOOLEAN : Save(o, s, utf8ok)
    \/ \E o \in Ops : Get(o)
    \/ Clean
    \/ \E i \in IndexInputs : SetIndex(i)
    \/ \E df \in DataFrames : ExtendBegin(df)
    \/ ExtendRenameColl
    \/ ExtendRenameConf
    \/ ExtendRenameFiles
    \/ ExtendRenameChunks
    \/ ExtendLoadIndex

SpecExtend == Init /\ [][NextExtend]_vars


(***************************************************************************)
(* Properties of the store.                                                *)
(***************************************************************************)
HasOperation(c, o) ==
    \E j \in 1..Len(c) : OpKey(_dict2operation(c[j].operation)) = OpKey(o)

Conforms(s) == (kind = "MongoDataStore" /\ _index.some) => s.index = _index.v

(* C1: a value written under an operation that is not yet in the store,    *)
(* by save or by Batch.append followed by commit, is returned by get, in   *)
(* every configuration of the store.                                       *)
C1_SaveGetRoundTrip ==
    [][/\ (last'.op = "save" /\ ~HasOperation(coll, last'.o) /\ Conforms(last'.val))
            => /\ last'.status = "ok"
               /\ _get(self', DB', last'.o) = Result("ok", last'.val)
       /\ (/\ last.op = "append" /\ Len(batch) = 1 /\ last'.op = "commit"
           /\ ~HasOperation(coll, last.o) /\ Conforms(last.val))
            => /\ last'.status = "ok"
               /\ _get(self', DB', last.o) = Result("ok", last.val)]_vars

(* C2: get returns the payload of a document whose operation has the key   *)
(* of the asked operation, also when another operation has the same hash;  *)
(* with no such document get and delete raise not-found and change nothing.*)
C2_CollisionSafeLookup ==
    [][/\ last'.op = "get" =>
            /\ DB' = DB
            /\ IF HasOperation(coll, last'.o)
               THEN last'.status = "ok" =>
                        \E j \in 1..Len(coll) :
                            /\ OpKey(_dict2operation(coll[j].operation)) = OpKey(last'.o)
                            /\ _parse_doc(self, DB, coll[j]) = Result("ok", last'.val)
               ELSE last'.status = "NotFound"
       /\ (last'.op = "delete" /\ ~HasOperation(coll, last'.o)) =>
            /\ last'.status = "NotFound"
            /\ DB' = DB]_vars

C2_Witness ==
    /\ last.op = "get"
    /\ last.status = "ok"
    /\ \E i, j \in 1..Len(coll) :
          /\ i < j
          /\ coll[i].op_hash = coll[j].op_hash
          /\ _dict2operation(coll[i].operation) # last.o
          /\ _dict2operation(coll[j].operation) = last.o
          /\ _parse_doc(self, DB, coll[i]) # _parse_doc(self, DB, coll[j])

(* C4: append buffers one document and touches no collection; commit adds  *)
(* the k buffered documents as k retrievable records with contiguous       *)
(* ascending ids and empties the batch; commit of an empty batch changes   *)
(* nothing.                                                                *)
C4_BatchWrite ==
    [][/\ last'.op = "append" => (Len(batch') = Len(batch) + 1 /\ DB' = DB)
       /\ (last'.op = "commit" /\ Len(batch) = 0) => (DB' = DB /\ batch' = <<>>)
       /\ (last'.op = "commit" /\ Len(batch) > 0) =>
            /\ Len(coll') = Len(coll) + Len(batch)
            /\ SubSeq(coll', 1, Len(coll)) = coll
            /\ batch' = <<>>
            /\ \A i \in 1..Len(batch) :
                  LET d == coll'[Len(coll) + i]
                  IN /\ d.operation = batch[i].operation
                     /\ _get(self', DB', _dict2operation(d.operation)).status = "ok"
                     /\ add_incremental_id => d._id = IntId(IdSeq(conf) + i - 1)]_vars

(* C5: clean leaves no document and a counter at 0, and the first          *)
(* document written after it gets _id 0.                                   *)
CleanState == coll = <<>> /\ conf = <<ConfDoc("id_seq", 0, NoneCell)>>

C5_CleanResets ==
    [][/\ last'.op = "clean" =>
            /\ Len(coll') = 0
            /\ add_incremental_id => CleanState'
       /\ (add_incremental_id /\ last'.op \in {"get", "delete", "append"} /\ CleanState)
            => CleanState'
       /\ (/\ add_incremental_id /\ CleanState
           /\ last'.op \in {"save", "commit"} /\ last'.status = "ok" /\ coll' # <<>>)
            => coll'[1]._id = IntId(0)]_vars

C5_Witness ==
    /\ add_incremental_id
    /\ last.op = "clean"
    /\ CleanState
    /\ fs_files = {}
    /\ _index.some
    /\ autosave_index
    /\ ~HasKey(conf, "index")

(* C10: with gridfs, a successful delete removes every blob of the deleted *)
(* record, the payload and the per-document index.                         *)
BlobsOf(d) == CellOids(d.values) \cup CellOids(d.index)

C10_DeleteRemovesBlobs ==
    [][(use_gridfs /\ last'.op = "delete" /\ last'.status = "ok")
            => BlobsOf(coll[FirstMatch(coll, last'.o)]) \cap fs_files' = {}]_vars


(* C8: extend on a store without shared index raises NotImplementedError   *)
(* whatever new_data contains, changes no collection and not the index,    *)
(* and creates no scratch store.                                           *)
ExtendCall == pc = "idle" /\ last'.op = "extend" /\ ~_index.some

C8_ExtendAlwaysNotImplemented ==
    [][ExtendCall =>
            /\ last'.status = "NotImplementedError"
            /\ DB' = DB /\ _index' = _index /\ scratch' = scratch]_vars

(* C8 as the code has it: extend on a store without shared index raises    *)
(* NotImplementedError when new_data has as many entries as the store has  *)
(* documents and AssertionError otherwise; either way no collection, not   *)
(* the index and no scratch store changes.                                 *)
C8_ExtendWithoutSharedIndex ==
    [][ExtendCall =>
            /\ last'.status = (IF last'.o = Len(coll) THEN "NotImplementedError"
                               ELSE "AssertionError")
            /\ DB' = DB /\ _index' = _index /\ scratch' = scratch]_vars

C8_Witness ==
    /\ pc = "idle"
    /\ last.op = "extend"
    /\ last.status = "NotImplementedError"
    /\ ~_index.some
    /\ last.o = Len(coll)
    /\ Len(coll) > 0
    /\ scratch = EmptyStore

FreshlyOpened == [self EXCEPT !._index = _load_index(self, DB).index]

(* C14: the renames of extend are separate steps.  After the rename of    *)
(* the main collection and before the rename of the conf collection the   *)
(* main collection holds the merged documents, while the conf collection  *)
(* (and with gridfs the fs collections) are the ones from before extend:  *)
(* the index document, if any, is the index the store had before extend,  *)
(* the blobs of the documents are not in the fs collections, and a store  *)
(* opened on the collection in this state can parse no document.          *)
MainRenamed == pc = "rename_conf"

C14_SwapNotAtomic ==
    MainRenamed =>
        /\ coll # <<>>
        /\ HasKey(scratch.conf, "index")
        /\ HasKey(conf, "index") => _load_index(self, DB) = [status |-> "ok", index |-> _index]
        /\ \A j \in 1..Len(coll) :
              /\ Len(loads_decompress(IF use_gridfs THEN gridfs_get(scratch, coll[j].values)
                                      ELSE coll[j].values).values) > Len(_index.v)
              /\ use_gridfs => BlobsOf(coll[j]) \cap fs_files = {}
              /\ _parse_doc(FreshlyOpened, DB, coll[j]).status # "ok"

C14_Witness ==
    /\ MainRenamed
    /\ use_gridfs
    /\ HasKey(conf, "index")
    /\ fs_files # {}
    /\ Len(coll) = 1
    /\ Len(_index.v) = 1
    /\ _load_index(self, DB).index = _index
    /\ _load_index(self, [scratch EXCEPT !.coll = coll]).index # _index

(* C11: in a MongoDataStore, save, commit and the assignment of the shared *)
(* index keep the documents under one index policy: every document has    *)
(* its own index and no shared index is set, or a shared index is set and *)
(* no document has its own index.                                         *)
PerDocumentPolicy == ~_index.some /\ \A j \in 1..Len(coll) : coll[j].index.tag # "none"

SharedPolicy == _index.some /\ \A j \in 1..Len(coll) : coll[j].index.tag = "none"

SinglePolicy == PerDocumentPolicy \/ SharedPolicy

C11_SingleIndexPolicy ==
    [][(/\ kind = "MongoDataStore"
        /\ last'.op \in {"save", "commit", "set_index"}
        /\ SinglePolicy) => SinglePolicy']_vars

(* C15: save, commit and delete keep at most one document per operation   *)
(* key in the collection; after a successful delete(O) get(O) raises      *)
(* not-found; after a successful save(O, v) the collection has one        *)
(* document of O and get(O) returns v.                                    *)
DocsOf(c, o) == {j \in 1..Len(c) : OpKey(_dict2operation(c[j].operation)) = OpKey(o)}

UniqueKeys(c) == \A o \in Ops : Cardinality(DocsOf(c, o)) <= 1

C15_KeyUniqueness ==
    [][/\ (last'.op \in {"save", "commit", "delete"} /\ UniqueKeys(coll)) => UniqueKeys(coll')
       /\ (last'.op = "delete" /\ last'.status = "ok")
            => _get(self', DB', last'.o).status = "NotFound"
       /\ (last'.op = "save" /\ last'.status = "ok" /\ Conforms(last'.val))
            => /\ Cardinality(DocsOf(coll', last'.o)) = 1
               /\ _get(self', DB', last'.o) = Result("ok", last'.val)]_vars

(* C16: in a MongoDataStore with autosave_index, whenever no call is in    *)
(* progress the shared index is set in memory iff the conf collection has *)
(* an index document, _load_index gives the in-memory index, and a store  *)
(* freshly opened on the collection parses every document without its own *)
(* index as this store does.                                              *)
C16_IndexConsistency ==
    (kind = "MongoDataStore" /\ autosave_index /\ pc = "idle") =>
        /\ _index.some <=> HasKey(conf, "index")
        /\ _load_index(self, DB) = [status |-> "ok", index |-> _index]
        /\ \A j \in 1..Len(coll) :
              coll[j].index.tag = "none" =>
                  _parse_doc(FreshlyOpened, DB, coll[j]) = _parse_doc(self, DB, coll[j])

(***************************************************************************)
(* fito.specs.base: Python values, fields and classes.                     *)
(*                                                                         *)
(* A Python value is a tuple whose first element says what it is.  An      *)
(* instance of a Spec class carries the name of its class and its          *)
(* attributes.                                                             *)
(***************************************************************************)
None == <<"none">>
PyBool(b) == <<"bool", b>>
PyInt(n) == <<"int", n>>
PyStr(s) == <<"str", s>>
PyList(s) == <<"list", s>>
PyTuple(s) == <<"tuple", s>>
PyDict(f) == <<"dict", f>>
Instance(cls, attrs) == <<"spec", cls, attrs>>

_no_default == <<"no_default">>

NoPos == -1

Field(field_kind, pos, default, base_type) ==
    [kind |-> field_kind, pos |-> pos, default |-> default, base_type |-> base_type,
     grid |-> <<>>]

ModelParameter(values, pos, default) ==
    [kind |-> "ModelParameter", pos |-> pos, default |-> default, base_type |-> "Spec",
     grid |-> values]

ModelField(pos, default, base_type) == Field("BaseSpecField", pos, default, base_type)

(* The classes and their direct base classes.                              *)
(*   class Leaf(Spec): a = NumericField(0)                                 *)
(*                     b = PrimitiveField(default=None)                    *)
(*   class Node(Spec): child = SpecField(default=None)                     *)
(*   class Bag(Spec):  items = SpecCollection(0)                           *)
(*   class Kernel(Model)                                                   *)
(*   class Rbf(Kernel):  p = ModelParameter(grid.rbf)                      *)
(*   class Poly(Kernel): p = ModelParameter(grid.poly)                     *)
(*   class Solo(Model):  p = ModelParameter([1, 2])                        *)
(*   class Top(Model):   p = ModelParameter(grid.top)                      *)
(*                       sub = ModelField(base_type=Kernel)                *)
(*                       sub2 = ModelField(base_type=Solo)                 *)
(* where Top declares the nested fields of grid.fields, with default None  *)
(* unless grid.required.                                                   *)
SpecClasses == {"Leaf", "Node", "Bag"}

ModelClasses == {"Kernel", "Solo", "Top"} \cup grid.impls

FieldClasses ==
    (IF "sub" \in grid.fields THEN {"SpecFieldKernel"} ELSE {})
    \cup (IF "sub2" \in grid.fields THEN {"SpecFieldSolo"} ELSE {})

AllClasses == SpecClasses \cup {"Operation", "Model"} \cup ModelClasses \cup FieldClasses

__bases__(cls) ==
    CASE cls \in SpecClasses \cup {"Operation"} -> {"Spec"}
      [] cls = "Model" -> {"Operation"}
      [] cls \in {"Kernel", "Solo", "Top"} -> {"Model"}
      [] cls \in {"Rbf", "Poly"} -> {"Kernel"}
      [] cls = "SpecFieldKernel" -> {"BaseSpecField", "Kernel"}
      [] cls = "SpecFieldSolo" -> {"BaseSpecField", "Solo"}
      [] cls = "BaseSpecField" -> {"Field"}
      [] OTHER -> {}

__subclasses__(cls) == {c \in AllClasses : cls \in __bases__(c)}

RECURSIVE issubclass(_, _)
issubclass(cls, base) ==
    cls = base \/ \E b \in __bases__(cls) : issubclass(b, base)

isinstance(v, t) ==
    CASE t = "object" -> TRUE
      [] t = "int" -> v[1] \in {"int", "bool"}
      [] t \in {"list", "tuple", "dict"} -> v[1] = t
      [] OTHER -> v[1] = "spec" /\ issubclass(v[2], t)

is_iterable(v) == v[1] \in {"list", "tuple", "dict"}

(* general_iterator: the (key, element) pairs of a container; only the     *)
(* elements matter here.                                                   *)
general_iterator(v) ==
    IF v[1] = "dict" THEN {v[2][k] : k \in DOMAIN v[2]}
    ELSE {v[2][i] : i \in 1..Len(v[2])}

allowed_types(field) ==
    CASE field.kind \in {"PrimitiveField", "ModelParameter"} -> {"object"}
      [] field.kind = "NumericField" -> {"int"}
      [] field.kind = "CollectionField" -> {"list", "dict", "tuple"}
      [] field.kind = "BaseSpecField" -> {field.base_type}
      [] field.kind = "SpecCollection" -> {"list", "dict", "tuple"}

check_valid_value(field, value) ==
    IF field.kind = "SpecCollection"
    THEN /\ is_iterable(value)
         /\ \A v \in general_iterator(value) : isinstance(v, "Spec")
    ELSE \E t \in allowed_types(field) : isinstance(value, t)

IsPrimitiveField(field) ==
    field.kind \in {"PrimitiveField", "NumericField", "CollectionField", "ModelParameter"}

GridValues(n) == [i \in 1..n |-> PyInt(i)]

get_fields(cls) ==
    CASE cls = "Leaf" -> [a |-> Field("NumericField", 0, _no_default, "Spec"),
                          b |-> Field("PrimitiveField", NoPos, None, "Spec")]
      [] cls = "Node" -> [child |-> Field("BaseSpecField", NoPos, None, "Spec")]
      [] cls = "Bag" -> [items |-> Field("SpecCollection", 0, _no_default, "Spec")]
      [] cls = "Rbf" -> [p |-> ModelParameter(grid.rbf, NoPos, _no_default)]
      [] cls = "Poly" -> [p |-> ModelParameter(grid.poly, NoPos, _no_default)]
      [] cls = "Solo" -> [p |-> ModelParameter(GridValues(2), NoPos, _no_default)]
      [] cls = "Top" ->
            LET default == IF grid.required THEN _no_default ELSE None
            IN [n \in {"p"} \cup grid.fields |->
                  CASE n = "p" -> ModelParameter(grid.top, NoPos, _no_default)
                    [] n = "sub" -> ModelField(NoPos, default, "Kernel")
                    [] n = "sub2" -> ModelField(NoPos, default, "Solo")]
      [] OTHER -> <<>>

RECURSIVE _get_all_subclasses(_)
_get_all_subclasses(cls) ==
    __subclasses__(cls) \cup UNION {_get_all_subclasses(c) : c \in __subclasses__(cls)}

(* Strings in the order Python sorts them.                                 *)
SortedNames ==
    <<"Kernel", "Poly", "Rbf", "Solo", "Top", "a", "b", "child", "dict", "extra", "items", "k", "p", "sub", "sub2",
      "transformed", "type">>

SortedKeysOf(S) == SelectSeq(SortedNames, LAMBDA n : n \in S)

Raised(status) == [status |-> status, v |-> None]
Returned(v) == [status |-> "ok", v |-> v]

(***************************************************************************)
(* Spec.__init__ with positional and keyword arguments                     *)
(***************************************************************************)
Spec__init__(cls, args, kwargs) ==
    LET fields == get_fields(cls)
        names == DOMAIN fields
        pos2name == {<<fields[n].pos, n>> : n \in {m \in names : fields[m].pos # NoPos}}
        positions == {p[1] : p \in pos2name}
        max_nargs == IF pos2name = {} THEN 0
                     ELSE SetMax(positions) + 1
                          + Cardinality({n \in names : fields[n].pos = NoPos})
        NameAt(i) == CHOOSE n \in names : <<i, n>> \in pos2name
        byPos == {NameAt(i - 1) : i \in 1..Len(args)}
        kw1 == [n \in DOMAIN kwargs \cup byPos |->
                  IF n \in byPos THEN args[fields[n].pos + 1] ELSE kwargs[n]]
        defaulted == {n \in names : fields[n].default # _no_default /\ n \notin DOMAIN kw1}
        kw2 == [n \in DOMAIN kw1 \cup defaulted |->
                  IF n \in defaulted THEN fields[n].default ELSE kw1[n]]
        get(n) == IF n \in DOMAIN kw2 THEN kw2[n] ELSE None
    IN IF Len(args) > max_nargs THEN Raised("InvalidSpecInstance")
       ELSE IF \E i \in 1..Len(args) : (i - 1) \notin positions THEN Raised("KeyError")
       ELSE IF Cardinality(DOMAIN kw2) # Cardinality(names) THEN Raised("InvalidSpecInstance")
       ELSE IF \E n \in names : get(n) # None /\ ~check_valid_value(fields[n], get(n))
       THEN Raised("InvalidSpecInstance")
       ELSE IF \E n \in DOMAIN kw2 : n \notin names THEN Raised("InvalidSpecInstance")
       ELSE Returned(Instance(cls, kw2))

(***************************************************************************)
(* Spec.to_dict; recursive_map(val, f) maps the leaves of a container.     *)
(***************************************************************************)
RECURSIVE Spec_to_dict(_)
RECURSIVE recursive_map_to_dict(_)
Spec_to_dict(inst) ==
    LET fields == get_fields(inst[2])
        attrs == inst[3]
    IN PyDict([k \in DOMAIN fields \cup {"type"} |->
             IF k = "type" THEN PyStr(inst[2])
             ELSE IF IsPrimitiveField(fields[k]) THEN attrs[k]
             ELSE IF fields[k].kind = "BaseSpecField"
             THEN (IF attrs[k] = None THEN None ELSE Spec_to_dict(attrs[k]))
             ELSE recursive_map_to_dict(attrs[k])])

recursive_map_to_dict(v) ==
    IF v[1] = "dict"
    THEN PyDict([k \in DOMAIN v[2] |-> recursive_map_to_dict(v[2][k])])
    ELSE IF is_iterable(v)
    THEN <<v[1], [i \in 1..Len(v[2]) |-> recursive_map_to_dict(v[2][i])]>>
    ELSE IF isinstance(v, "Spec") THEN Spec_to_dict(v)
    ELSE v

(***************************************************************************)
(* Spec.__dict2key and Spec.__key2dict                                     *)
(***************************************************************************)
RECURSIVE __dict2key(_)
__dict2key(d) ==
    LET f == d[2]
        g == [k \in DOMAIN f |-> IF f[k][1] = "dict" THEN __dict2key(f[k]) ELSE f[k]]
        order == SortedKeysOf(DOMAIN f)
    IN PyDict([transformed |-> PyBool(TRUE),
             dict |-> PyList([i \in 1..Len(order) |-> PyTuple(<<PyStr(order[i]), g[order[i]]>>)])])

RECURSIVE __key2dict(_)
__key2dict(obj) ==
    IF /\ obj[1] = "dict"
       /\ {"transformed", "dict"} \subseteq DOMAIN obj[2]
       /\ obj[2]["transformed"] = PyBool(TRUE)
    THEN LET pairs == obj[2]["dict"][2]
             LastOf(k) == CHOOSE i \in 1..Len(pairs) :
                 /\ pairs[i][2][1][2] = k
                 /\ \A j \in (i + 1)..Len(pairs) : pairs[j][2][1][2] # k
         IN PyDict([k \in {pairs[i][2][1][2] : i \in 1..Len(pairs)} |->
                    __key2dict(pairs[LastOf(k)][2][2])])
    ELSE obj

(***************************************************************************)
(* json.dumps and json.loads: a tuple is written as an array and an array  *)
(* is read as a list.                                                      *)
(***************************************************************************)
RECURSIVE Serializable(_)
Serializable(v) ==
    CASE v[1] = "spec" -> FALSE
      [] v[1] \in {"list", "tuple"} -> \A i \in 1..Len(v[2]) : Serializable(v[2][i])
      [] v[1] = "dict" -> \A k \in DOMAIN v[2] : Serializable(v[2][k])
      [] OTHER -> TRUE

RECURSIVE json_encode(_)
json_encode(v) ==
    CASE v[1] = "none" -> <<"null">>
      [] v[1] = "bool" -> <<"literal", v[2]>>
      [] v[1] = "int" -> <<"number", v[2]>>
      [] v[1] = "str" -> <<"string", v[2]>>
      [] v[1] \in {"list", "tuple"} ->
            <<"array", [i \in 1..Len(v[2]) |-> json_encode(v[2][i])]>>
      [] v[1] = "dict" -> <<"object", [k \in DOMAIN v[2] |-> json_encode(v[2][k])]>>

json_dumps(v) == IF Serializable(v) THEN Returned(json_encode(v)) ELSE Raised("TypeError")

RECURSIVE json_loads(_)
json_loads(t) ==
    CASE t[1] = "null" -> None
      [] t[1] = "literal" -> PyBool(t[2])
      [] t[1] = "number" -> PyInt(t[2])
      [] t[1] = "string" -> PyStr(t[2])
      [] t[1] = "array" -> PyList([i \in 1..Len(t[2]) |-> json_loads(t[2][i])])
      [] t[1] = "object" -> PyDict([k \in DOMAIN t[2] |-> json_loads(t[2][k])])

(* Spec.key: '/' followed by the JSON text.                                *)
key(inst) ==
    LET r == json_dumps(__dict2key(Spec_to_dict(inst)))
    IN IF r.status = "ok" THEN Returned(<<"/", r.v>>) ELSE r


(***************************************************************************)
(* Spec.type2spec_class, Spec.dict2spec, Spec._from_dict, Spec.key2spec    *)
(***************************************************************************)
type2spec_class(spec_type) ==
    IF spec_type \in _get_all_subclasses("Spec") THEN PyStr(spec_type) ELSE None

(* The end of _from_dict: the first conversion that raised, or the call   *)
(* of the class with the converted arguments.                              *)
FromConverted(cls, kwargs, conv) ==
    LET failing == SortedKeysOf({n \in DOMAIN conv : conv[n].status # "ok"})
    IN IF failing # <<>> THEN conv[failing[1]]
       ELSE Spec__init__(cls, <<>>,
                [k \in DOMAIN kwargs |-> IF k \in DOMAIN conv THEN conv[k].v ELSE kwargs[k]])

RECURSIVE dict2spec(_)
RECURSIVE _from_dict(_, _)
RECURSIVE recursive_map_from_dict(_)
dict2spec(d) ==
    IF d[1] # "dict" THEN Raised("TypeError")
    ELSE IF "type" \notin DOMAIN d[2] THEN Raised("KeyError")
    ELSE IF d[2]["type"][1] # "str" THEN Raised("TypeError")
    ELSE IF type2spec_class(d[2]["type"][2]) = None THEN Raised("ValueError")
    ELSE _from_dict(d[2]["type"][2], d)

recursive_map_from_dict(obj) ==
    LET r == dict2spec(obj)
    IN IF r.status = "ok" THEN r.v
       ELSE IF obj[1] = "dict"
       THEN PyDict([k \in DOMAIN obj[2] |-> recursive_map_from_dict(obj[2][k])])
       ELSE IF is_iterable(obj)
       THEN <<obj[1], [i \in 1..Len(obj[2]) |-> recursive_map_from_dict(obj[2][i])]>>
       ELSE obj

_from_dict(cls, d) ==
    LET fields == get_fields(cls)
        kwargs == [k \in DOMAIN d[2] \ {"type"} |-> d[2][k]]
        converted == {n \in DOMAIN fields : ~IsPrimitiveField(fields[n])}
        conv == [n \in converted |->
                   IF n \notin DOMAIN kwargs THEN Raised("KeyError")
                   ELSE IF fields[n].kind = "BaseSpecField" THEN dict2spec(kwargs[n])
                   ELSE Returned(recursive_map_from_dict(kwargs[n]))]
    IN FromConverted(cls, kwargs, conv)

key2spec(str) == dict2spec(__key2dict(json_loads(str[2])))

(* Spec.__eq__ compares the keys.                                          *)
Spec__eq__(x, y) == key(x) = key(y)


(***************************************************************************)
(* SpecTypes: a program constructs a Spec instance from arguments, takes   *)
(* its key and builds an instance back from the key.                       *)
(*   call: the arguments of the constructor call and, as they come, the    *)
(*   outcome of the constructor, the key and the outcome of key2spec.      *)
(***************************************************************************)
MaxArgs == 2
MaxKwargs == 2

LeafInstance == Spec__init__("Leaf", <<PyInt(1)>>, <<>>).v
NodeInstance == Spec__init__("Node", <<>>, <<>>).v

ArgValues ==
    {None, PyInt(1), PyStr("x"), PyList(<<PyInt(1)>>), PyTuple(<<PyInt(1)>>),
     PyDict([k |-> PyInt(1)]),
     LeafInstance, NodeInstance, PyList(<<LeafInstance>>),
     PyTuple(<<LeafInstance, NodeInstance>>), PyDict([k |-> LeafInstance])}

KwargValues == {None, PyInt(1), LeafInstance, NodeInstance, PyList(<<LeafInstance>>)}

ArgLists == UNION {[1..n -> ArgValues] : n \in 0..MaxArgs}

KwargDicts(cls) ==
    UNION {[S -> KwargValues] :
             S \in {T \in SUBSET (DOMAIN get_fields(cls) \cup {"extra"}) :
                      Cardinality(T) <= MaxKwargs}}

StoreIdle ==
    /\ kind = "MongoHashMap"
    /\ use_gridfs = FALSE
    /\ add_incremental_id = TRUE
    /\ autosave_index = TRUE
    /\ _index = NoIndex
    /\ coll = <<>>
    /\ conf = _init_incremental_id(EmptyStore).conf
    /\ fs_files = {}
    /\ fs_chunks = <<>>
    /\ scratch = EmptyStore
    /\ batch = <<>>
    /\ pc = "idle"
    /\ last = Last("init", 0, NoObj, "ok")

store_vars == <<config, _index, coll, conf, fs_files, fs_chunks, scratch, batch, pc, last>>

NotYet == [status |-> "none", v |-> None]

InitTypes ==
    /\ StoreIdle
    /\ writers = <<>>
    /\ allocs = <<>>
    /\ grid = Registry("idle", {}, <<>>, <<>>, <<>>, {}, FALSE)
    /\ \E cls \in SpecClasses, args \in ArgLists :
         \E kwargs \in KwargDicts(cls) :
            call = [at |-> "call", cls |-> cls, args |-> args, kwargs |-> kwargs,
                    built |-> NotYet, key |-> NotYet, back |-> NotYet]

Construct ==
    /\ call.at = "call"
    /\ call' = [call EXCEPT !.at = "built",
                            !.built = Spec__init__(call.cls, call.args, call.kwargs)]
    /\ UNCHANGED <<store_vars, writers, allocs, grid>>

Key ==
    /\ call.at = "built"
    /\ call.built.status = "ok"
    /\ call' = [call EXCEPT !.at = "keyed", !.key = key(call.built.v)]
    /\ UNCHANGED <<store_vars, writers, allocs, grid>>

Key2Spec ==
    /\ call.at = "keyed"
    /\ call.key.status = "ok"
    /\ call' = [call EXCEPT !.at = "back", !.back = key2spec(call.key.v)]
    /\ UNCHANGED <<store_vars, writers, allocs, grid>>

NextTypes == Construct \/ Key \/ Key2Spec

SpecTypes == InitTypes /\ [][NextTypes]_vars

(* C6: for every instance that the constructor accepts, key2spec of its    *)
(* key succeeds and gives an instance with the same key.                   *)
C6_KeyRoundTrip ==
    call.at = "back" =>
        /\ call.back.status = "ok"
        /\ Spec__eq__(call.back.v, call.built.v)

(* C7: a constructor call with more positional arguments than fields with  *)
(* a position, with an unknown name, without a value for a field that has  *)
(* no default, or with a value other than None that its field rejects,     *)
(* raises InvalidSpecInstance.                                             *)
Positioned(cls) == {n \in DOMAIN get_fields(cls) : get_fields(cls)[n].pos # NoPos}

Supplied(cls, args, kwargs) ==
    DOMAIN kwargs \cup {n \in Positioned(cls) : get_fields(cls)[n].pos < Len(args)}

ValueFor(cls, args, kwargs, n) ==
    IF n \in Positioned(cls) /\ get_fields(cls)[n].pos < Len(args)
    THEN args[get_fields(cls)[n].pos + 1]
    ELSE kwargs[n]

MustBeRejected(cls, args, kwargs) ==
    LET fields == get_fields(cls)
    IN \/ Len(args) > Cardinality(Positioned(cls))
       \/ \E n \in DOMAIN kwargs : n \notin DOMAIN fields
       \/ \E n \in DOMAIN fields :
            fields[n].default = _no_default /\ n \notin Supplied(cls, args, kwargs)
       \/ \E n \in DOMAIN fields \cap Supplied(cls, args, kwargs) :
            LET v == ValueFor(cls, args, kwargs, n)
            IN v # None /\ ~check_valid_value(fields[n], v)

C7_ConstructionValidation ==
    (call.at # "call" /\ MustBeRejected(call.cls, call.args, call.kwargs))
        => call.built.status = "InvalidSpecInstance"


(***************************************************************************)
(* fito.model.model: Model.get_primitive_param_grid and                    *)
(* Model.get_hyper_parameters_grid.                                        *)
(***************************************************************************)
RECURSIVE Flatten(_)
Flatten(lists) == IF lists = <<>> THEN <<>> ELSE Head(lists) \o Flatten(Tail(lists))

(* sklearn's ParameterGrid and itertools.product: every choice of one      *)
(* value per name; no name gives the one empty choice, an empty list of    *)
(* values gives none.                                                      *)
RECURSIVE GridOver(_, _)
GridOver(g, names) ==
    IF names = <<>> THEN << <<>> >>
    ELSE LET n == Head(names)
             rest == GridOver(g, Tail(names))
         IN Flatten([i \in 1..Len(g[n]) |->
                       [j \in 1..Len(rest) |-> (n :> g[n][i]) @@ rest[j]]])

ParameterGrid(g) == GridOver(g, SortedKeysOf(DOMAIN g))

get_primitive_param_grid(cls) ==
    LET fields == get_fields(cls)
    IN ParameterGrid([n \in {m \in DOMAIN fields : fields[m].kind = "ModelParameter"} |->
                        fields[n].grid])

FirstRaised(outcomes) ==
    outcomes[CHOOSE i \in 1..Len(outcomes) :
                /\ outcomes[i].status # "ok"
                /\ \A j \in 1..(i - 1) : outcomes[j].status = "ok"]

AllReturned(outcomes) == \A i \in 1..Len(outcomes) : outcomes[i].status = "ok"

AllOrFirstRaised(outcomes) ==
    IF AllReturned(outcomes) THEN Returned([i \in 1..Len(outcomes) |-> outcomes[i].v])
    ELSE FirstRaised(outcomes)

ConfigurationOf(cls, model_fields_combination, specs) ==
    LET failing == SortedKeysOf({n \in DOMAIN specs : specs[n].status # "ok"})
        inst == Spec__init__(cls, <<>>,
                    [n \in DOMAIN specs |-> specs[n].v] @@ model_fields_combination)
    IN IF failing # <<>> THEN specs[failing[1]]
       ELSE IF inst.status # "ok" THEN inst
       ELSE Returned(Spec_to_dict(inst.v))

ModelFieldsOf(cls) ==
    LET fields == get_fields(cls)
    IN {n \in DOMAIN fields :
          /\ fields[n].kind = "BaseSpecField"
          /\ fields[n].base_type # "Spec"
          /\ issubclass(fields[n].base_type, "Model")}

Implementations(base_type) ==
    SortedKeysOf({impl \in _get_all_subclasses(base_type) : ~issubclass(impl, "Field")})

(* One configuration: the nested dicts are made instances, the class is    *)
(* instantiated and the instance is written as a dict.                     *)
Configuration(cls, model_fields_combination, params) ==
    LET specs == [n \in DOMAIN params |-> dict2spec(params[n])]
    IN ConfigurationOf(cls, model_fields_combination, specs)

(* The loops of lines 44-59 over the primitive grid and the product of the *)
(* nested grids.                                                           *)
Configurations(cls, primitive, products) ==
    Flatten([i \in 1..Len(primitive) |->
               [j \in 1..Len(products) |-> Configuration(cls, primitive[i], products[j])]])

(* The end of get_hyper_parameters_grid, with grids[n] the outcomes of     *)
(* get_hyper_parameters_grid on the implementations of field n.            *)
CombineGrids(cls, grids) ==
    LET submodel_fields == SortedKeysOf({n \in DOMAIN grids : grids[n] # <<>>})
        collected == Flatten([k \in 1..Len(submodel_fields) |-> grids[submodel_fields[k]]])
        submodels_params == [n \in {m \in DOMAIN grids : grids[m] # <<>>} |->
                               Flatten([i \in 1..Len(grids[n]) |-> grids[n][i].v])]
    IN IF ~AllReturned(collected) THEN FirstRaised(collected)
       ELSE AllOrFirstRaised(Configurations(cls, get_primitive_param_grid(cls),
                                            ParameterGrid(submodels_params)))

RECURSIVE get_hyper_parameters_grid(_)
ImplementationGrids(base_type) ==
    LET impls == Implementations(base_type)
    IN [i \in 1..Len(impls) |-> get_hyper_parameters_grid(impls[i])]

get_hyper_parameters_grid(cls) ==
    CombineGrids(cls, [n \in ModelFieldsOf(cls) |->
                         ImplementationGrids(get_fields(cls)[n].base_type)])

(***************************************************************************)
(* SpecGrid: a program registers Model classes and asks Top for its        *)
(* hyper-parameter grid.                                                   *)
(***************************************************************************)
MaxGrid == 2

InitGrid ==
    /\ StoreIdle
    /\ writers = <<>>
    /\ allocs = <<>>
    /\ call = <<>>
    /\ \E impls \in SUBSET {"Rbf", "Poly"}, fields \in SUBSET {"sub", "sub2"},
          rbf \in 1..MaxGrid, poly \in 1..MaxGrid, top \in 0..MaxGrid, required \in BOOLEAN :
         grid = Registry("idle", impls, GridValues(rbf), GridValues(poly),
                         GridValues(top), fields, required)

GetHyperParametersGrid ==
    /\ grid.at = "idle"
    /\ grid' = [grid EXCEPT !.at = "done", !.result = get_hyper_parameters_grid("Top")]
    /\ UNCHANGED <<store_vars, writers, allocs, call>>

NextGrid == GetHyperParametersGrid

SpecGrid == InitGrid /\ [][NextGrid]_vars

(* C9: Top.get_hyper_parameters_grid() returns |P| * |G(f1)| * .. * |G(fm)| *)
(* configurations, one for each choice of an element of the primitive grid *)
(* P and of one element of G(f) for every nested Model field f, where G(f) *)
(* is the concatenation of the grids of the implementations of f's type.   *)
G(cls, f) ==
    LET impls == Implementations(get_fields(cls)[f].base_type)
    IN Flatten([i \in 1..Len(impls) |-> get_hyper_parameters_grid(impls[i]).v])

RECURSIVE Product(_, _)
Product(cls, fs) ==
    IF fs = {} THEN 1
    ELSE LET f == CHOOSE x \in fs : TRUE
         IN Len(G(cls, f)) * Product(cls, fs \ {f})

Range(seq) == {seq[i] : i \in 1..Len(seq)}

Combinations(cls) ==
    LET P == get_primitive_param_grid(cls)
        fs == ModelFieldsOf(cls)
    IN {PyDict(("type" :> PyStr(cls)) @@ p @@ g) :
          p \in Range(P), g \in UNION {[fs -> UNION {Range(G(cls, f)) : f \in fs}]}}

C9_GridCount ==
    grid.at = "done" =>
        /\ grid.result.status = "ok"
        /\ Len(grid.result.v) = Len(get_primitive_param_grid("Top"))
                                  * Product("Top", ModelFieldsOf("Top"))
        /\ \A i \in 1..Len(grid.result.v) :
              /\ grid.result.v[i] \in Combinations("Top")
              /\ \A f \in ModelFieldsOf("Top") : grid.result.v[i][2][f] \in Range(G("Top", f))
        /\ \A i, j \in 1..Len(grid.result.v) : i # j => grid.result.v[i] # grid.result.v[j]


(***************************************************************************)
(* SpecIds: several writers call _insert on one store with incremental     *)
(* ids.  A call is the find_and_modify on the counter, one step of the     *)
(* database, and then one insert per document; a DuplicateKeyError makes   *)
(* the writer call _insert again with the same documents.                  *)
(*   writers[w]: where writer w stands, its documents and the next one to  *)
(*   insert;  allocs: the increments of the counter so far, each with the  *)
(*   value of the counter after it and the ids its batch was given.        *)
(***************************************************************************)
NumWriters == 2
MaxSeq == 4

Writers == 1..NumWriters

WriterIdle == [at |-> "idle", docs |-> <<>>, next |-> 1]

InsertedSeries == [index |-> <<1>>, values |-> <<5>>]

InitIds ==
    /\ StoreIdle
    /\ writers = [w \in Writers |-> WriterIdle]
    /\ allocs = <<>>
    /\ call = <<>>
    /\ grid = Registry("idle", {}, <<>>, <<>>, <<>>, {}, FALSE)

FindAndModify(w, o, k) ==
    LET docs == IF writers[w].at = "retry" THEN writers[w].docs
                ELSE [i \in 1..k |-> _build_doc(self, o, InsertedSeries)]
        r == find_and_modify(conf, Len(docs))
        withIds == AssignIds(docs, r.value)
    IN /\ writers[w].at \in {"idle", "retry"}
       /\ IdSeq(conf) + Len(docs) <= MaxSeq
       /\ conf' = r.conf
       /\ writers' = [writers EXCEPT ![w] = [at |-> "insert", docs |-> withIds, next |-> 1]]
       /\ allocs' = Append(allocs, [w |-> w, counter |-> IdSeq(r.conf),
                                    ids |-> [i \in 1..Len(docs) |-> withIds[i]._id]])
       /\ UNCHANGED <<config, _index, coll, fs_files, fs_chunks, scratch, batch, pc, last,
                      call, grid>>

InsertDocument(w) ==
    LET doc == writers[w].docs[writers[w].next]
    IN /\ writers[w].at = "insert"
       /\ IF HasId(coll, doc._id)
          THEN /\ writers' = [writers EXCEPT ![w].at = "retry"]
               /\ UNCHANGED coll
          ELSE /\ coll' = Append(coll, doc)
               /\ writers' = [writers EXCEPT
                     ![w].next = @ + 1,
                     ![w].at = IF writers[w].next = Len(writers[w].docs)
                               THEN "idle" ELSE "insert"]
       /\ UNCHANGED <<config, _index, conf, fs_files, fs_chunks, scratch, batch, pc, last,
                      allocs, call, grid>>

NextIds ==
    \/ \E w \in Writers, o \in Ops, k \in 1..MaxBatch : FindAndModify(w, o, k)
    \/ \E w \in Writers : InsertDocument(w)

SpecIds == InitIds /\ [][NextIds]_vars

(* C3: whatever the interleaving of the writers, a batch of k documents    *)
(* gets the ids max_id-k .. max_id-1 in the order of its documents, where  *)
(* max_id is the counter after the batch's increment; the ids of two       *)
(* batches are disjoint; no two documents of the collection have the same  *)
(* _id and no insert meets a duplicate key.                                *)
C3_IdAllocation ==
    /\ \A n \in 1..Len(allocs) :
          allocs[n].ids = [i \in 1..Len(allocs[n].ids) |->
                             IntId(allocs[n].counter - Len(allocs[n].ids) + (i - 1))]
    /\ \A m, n \in 1..Len(allocs) :
          m # n => Range(allocs[m].ids) \cap Range(allocs[n].ids) = {}
    /\ \A i, j \in 1..Len(coll) : i # j => coll[i]._id # coll[j]._id
    /\ \A w \in Writers : writers[w].at # "retry"

C3_Witness ==
    /\ Len(allocs) = 2
    /\ allocs[1].w # allocs[2].w
    /\ Len(allocs[1].ids) = 2
    /\ Len(coll) = 2
    /\ coll[1]._id = IntId(2)
    /\ coll[2]._id = IntId(0)
    /\ writers[allocs[1].w].at = "insert"


(***************************************************************************)
(* SpecOpen: several processes open a store with incremental ids on the    *)
(* same collection (the constructor runs _init_incremental_id) and call    *)
(* clean(), whose removes and _init_incremental_id are separate operations *)
(* of the database.  writers[p].at is where process p stands:              *)
(*   "idle"          no call in progress;                                  *)
(*   "insert_id"     find_one returned None, the insert is next;           *)
(*   "remove_conf", "remove_files", "remove_chunks", "init_id"             *)
(*                   inside clean, before the named operation.             *)
(***************************************************************************)
NumProcs == 3
MaxCounters == 3

Procs == 1..NumProcs

At(place) == [at |-> place, docs |-> <<>>, next |-> 1]

InitOpen ==
    /\ kind = "MongoHashMap"
    /\ use_gridfs = FALSE
    /\ add_incremental_id = TRUE
    /\ autosave_index = TRUE
    /\ _index = NoIndex
    /\ coll = <<>>
    /\ conf = <<>>
    /\ fs_files = {}
    /\ fs_chunks = <<>>
    /\ scratch = EmptyStore
    /\ batch = <<>>
    /\ pc = "idle"
    /\ last = Last("init", 0, NoObj, "ok")
    /\ writers = [p \in Procs |-> At("idle")]
    /\ allocs = <<>>
    /\ call = <<>>
    /\ grid = Registry("idle", {}, <<>>, <<>>, <<>>, {}, FALSE)

(* doc = self.coll.conf.find_one({'key': 'id_seq'}), reached from the      *)
(* constructor or from the end of clean.                                   *)
InitIdFindOne(p) ==
    /\ writers[p].at \in {"idle", "init_id"}
    /\ writers' = [writers EXCEPT ![p] =
                      IF HasKey(conf, "id_seq") THEN At("idle") ELSE At("insert_id")]
    /\ UNCHANGED <<config, _index, coll, conf, fs_files, fs_chunks, scratch, batch, pc, last,
                   allocs, call, grid>>

(* self.coll.conf.insert({'key': 'id_seq', 'value': 0})                    *)
InitIdInsert(p) ==
    /\ writers[p].at = "insert_id"
    /\ Len(conf) < MaxCounters
    /\ conf' = Append(conf, ConfDoc("id_seq", 0, NoneCell))
    /\ writers' = [writers EXCEPT ![p] = At("idle")]
    /\ UNCHANGED <<config, _index, coll, fs_files, fs_chunks, scratch, batch, pc, last,
                   allocs, call, grid>>

(* The four removes of clean, one operation of the database each.          *)
CleanRemove(p) ==
    /\ writers[p].at \in {"idle", "remove_conf", "remove_files", "remove_chunks"}
    /\ coll' = (IF writers[p].at = "idle" THEN <<>> ELSE coll)
    /\ conf' = (IF writers[p].at = "remove_conf" THEN <<>> ELSE conf)
    /\ fs_files' = (IF writers[p].at = "remove_files" THEN {} ELSE fs_files)
    /\ fs_chunks' = (IF writers[p].at = "remove_chunks" THEN <<>> ELSE fs_chunks)
    /\ writers' = [writers EXCEPT ![p] =
                      CASE writers[p].at = "idle" -> At("remove_conf")
                        [] writers[p].at = "remove_conf" -> At("remove_files")
                        [] writers[p].at = "remove_files" -> At("remove_chunks")
                        [] OTHER -> At("init_id")]
    /\ UNCHANGED <<config, _index, scratch, batch, pc, last, allocs, call, grid>>

NextOpen ==
    \/ \E p \in Procs : InitIdFindOne(p)
    \/ \E p \in Procs : InitIdInsert(p)
    \/ \E p \in Procs : CleanRemove(p)

SpecOpen == InitOpen /\ [][NextOpen]_vars

(* C12: whatever the interleaving of openings and clean() calls, the conf  *)
(* collection has at most one document with key 'id_seq'.                  *)
C12_CounterSingleton ==
    Cardinality({j \in 1..Len(conf) : conf[j].key = "id_seq"}) <= 1


(***************************************************************************)
(* SpecRetry: writers call _insert once each on a store with incremental   *)
(* ids while another process may call clean().  One step per operation of  *)
(* the database: the find_and_modify of the counter, the gridfs put of one *)
(* document's values, the write of one document.  writers[w] holds         *)
(*   docs     the list docs of the call, as the code has changed it;       *)
(*   built    the documents as _build_doc made them;                       *)
(*   cleaned  whether clean() ran since the call began;                    *)
(*   at       "idle", "persist", "insert", "retry" (DuplicateKeyError      *)
(*            caught, the recursive call is next) or "raised".             *)
(***************************************************************************)
Payload(w, i) == [index |-> <<1>>, values |-> <<10 * w + i>>]

NotCalled == [at |-> "idle", docs |-> <<>>, next |-> 1, built |-> <<>>, cleaned |-> FALSE]

InitRetry ==
    /\ kind = "MongoHashMap"
    /\ use_gridfs \in BOOLEAN
    /\ add_incremental_id = TRUE
    /\ autosave_index = TRUE
    /\ _index = NoIndex
    /\ coll = <<>>
    /\ conf = _init_incremental_id(EmptyStore).conf
    /\ fs_files = {}
    /\ fs_chunks = <<>>
    /\ scratch = EmptyStore
    /\ batch = <<>>
    /\ pc = "idle"
    /\ last = Last("init", 0, NoObj, "ok")
    /\ writers = [w \in Writers |-> NotCalled]
    /\ allocs = <<>>
    /\ call = <<>>
    /\ grid = Registry("idle", {}, <<>>, <<>>, <<>>, {}, FALSE)

retry_oid ==
    SetMax(StoreOids(DB)
           \cup UNION {UNION {DocOids(writers[w].docs[j]) : j \in 1..Len(writers[w].docs)} :
                        w \in Writers})

(* max_id = find_and_modify(...) and the assignment of the ids, at the     *)
(* start of _insert(docs) or of the recursive _insert(docs) of the except  *)
(* clause, which gets the same list.                                       *)
InsertAllocate(w, o, k) ==
    LET first == writers[w].at = "idle"
        docs == IF first THEN [i \in 1..k |-> _build_doc(self, o, Payload(w, i))]
                ELSE writers[w].docs
        r == find_and_modify(conf, Len(docs))
    IN /\ \/ writers[w].at = "idle" /\ writers[w].built = <<>>
          \/ writers[w].at = "retry"
       /\ IdSeq(conf) + Len(docs) <= MaxSeq
       /\ conf' = r.conf
       /\ writers' = [writers EXCEPT ![w] =
             [at |-> IF use_gridfs THEN "persist" ELSE "insert",
              docs |-> AssignIds(docs, r.value),
              next |-> 1,
              built |-> IF first THEN docs ELSE writers[w].built,
              cleaned |-> IF first THEN FALSE ELSE writers[w].cleaned]]
       /\ UNCHANGED <<config, _index, coll, fs_files, fs_chunks, scratch, batch, pc, last,
                      allocs, call, grid>>

(* One round of the loop of _persist_values: values = doc.pop('values');   *)
(* doc['values'] = self.gridfs.put(values).                                *)
PersistValue(w) ==
    LET i == writers[w].next
        values == writers[w].docs[i].values
        p == gridfs_put(DB, retry_oid, values)
    IN /\ writers[w].at = "persist"
       /\ IF ~CanPut(values)
          THEN /\ writers' = [writers EXCEPT ![w].at = "raised",
                                             ![w].docs[i].values = NoneCell]
               /\ UNCHANGED <<fs_files, fs_chunks>>
          ELSE /\ fs_files' = p.st.files
               /\ fs_chunks' = p.st.chunks
               /\ writers' = [writers EXCEPT
                     ![w].docs[i].values = p.ref,
                     ![w].next = IF i = Len(writers[w].docs) THEN 1 ELSE i + 1,
                     ![w].at = IF i = Len(writers[w].docs) THEN "insert" ELSE "persist"]
       /\ UNCHANGED <<config, _index, coll, conf, scratch, batch, pc, last,
                      allocs, call, grid>>

(* clean() of another process, with no operation of a writer in between.   *)
CleanByOther ==
    /\ SetDB(clean(self, DB))
    /\ writers' = [w \in Writers |-> [writers[w] EXCEPT !.cleaned = TRUE]]
    /\ UNCHANGED <<config, _index, scratch, batch, pc, last, allocs, call, grid>>

NextRetry ==
    \/ \E w \in Writers, o \in Ops, k \in 1..MaxBatch : InsertAllocate(w, o, k)
    \/ \E w \in Writers : PersistValue(w)
    \/ \E w \in Writers : InsertDocument(w)
    \/ CleanByOther

SpecRetry == InitRetry /\ [][NextRetry]_vars

(* C13: when _insert has returned for a batch of k documents and no        *)
(* clean() ran since the call began, the collection has each of the k      *)
(* documents exactly once, at k contiguous ids in the order of the batch,  *)
(* and with gridfs each refers to a file that holds its values, however    *)
(* many duplicate-key conflicts and retries there were.                    *)
InsertReturned(w) ==
    writers[w].at = "idle" /\ writers[w].built # <<>> /\ ~writers[w].cleaned

StoredValues(d) ==
    IF ~use_gridfs THEN d.values
    ELSE IF CanGet(DB, d.values) THEN gridfs_get(DB, d.values)
    ELSE NoneCell

Copies(d) == {j \in 1..Len(coll) : StoredValues(coll[j]) = d.values}

C13_RetryWritesOnce ==
    \A w \in Writers :
        InsertReturned(w) =>
            \E n \in 0..MaxSeq :
                \A i \in 1..Len(writers[w].built) :
                    /\ Cardinality(Copies(writers[w].built[i])) = 1
                    /\ \A j \in Copies(writers[w].built[i]) :
                          /\ coll[j]._id = IntId(n + i - 1)
                          /\ coll[j].operation = writers[w].built[i].operation

====
